---- MODULE Spec2Model ----
(* Model of src/src/pagetable.rs: a two-level, grow-only page table whose  *)
(* slots are atomic pointers, with lazy creation of second-level nodes in   *)
(* traverse, insert by atomic swap, get by atomic load and the PageView     *)
(* read-copy-update loop (rcu), and the drop of the table.  Every atomic     *)
(* access of the source is one step of a thread; thread-local computation   *)
(* is folded into the atomic access that follows it.  The drop of the table *)
(* has the table to itself and is one step.                                 *)
EXTENDS Integers, Sequences, FiniteSets, TLC

(* ---------------------------------------------------------------- bounds *)
\* bits per level; the source uses 18, the model a scaled-down fan-out
FAN_FACTOR == 1
\* number of client threads
NumThreads == 2
\* total number of insert/get/rcu calls issued by all threads together
MaxCalls == 3

(* ------------------------------------------------------------- constants *)
FAN_OUT == 2 ^ FAN_FACTOR
FAN_MASK == FAN_OUT - 1
\* first identifier that two levels of FAN_FACTOR bits cannot represent
Limit == 2 ^ (FAN_FACTOR * 2)

Null == 0
Threads == 1 .. NumThreads
\* identifiers the clients use: two in the first branch, the largest
\* representable one, the first unrepresentable one and one beyond it
Ids == {0, 1, Limit - 1, Limit, Limit + 1}
\* transformations handed to rcu: one that changes the page and bumps its
\* version marker and one that leaves it logically unchanged (a relocation)
Fs == {"bump", "move"}
\* identifiers of the dense workload: the whole first second-level node
\* and the first identifier of the next one
TeardownIds == 0 .. FAN_OUT

VARIABLES
    n1children,  \* Node1.children of the head node: index -> Node2 address
    n2children,  \* heap of Node2: address -> (index -> Page address)
    n2freed,     \* Node2 addresses that were dropped
    pages,       \* heap of Page: address -> page value
    retired,     \* pages handed to the guard for deferred destruction
    pc,          \* per thread: position in the current call
    arg,         \* per thread: arguments of the current call
    loc,         \* per thread: locals of traverse and rcu
    view,        \* per thread: the PageView it holds
    res,         \* per thread: outcome of its last call
    calls,       \* number of calls issued so far
    log,         \* history: per identifier, the slot writes made for it
    displaced,   \* history: pages removed from a slot by a successful rcu
    teardown,    \* what the drop of the table has freed, in order
    cfreed       \* threads that dropped the clone of a failed rcu attempt

vars == <<n1children, n2children, n2freed, pages, retired, pc, arg, loc,
          view, res, calls, log, displaced, teardown, cfreed>>

(* ------------------------------------------------------- pure functions *)
\* the range assertion of split_fanout
RangeOk(id) == id <= Limit

\* variant: the first-level index ignores the high bits of the identifier
split_fanoutLow(id) == <<0, id % (FAN_MASK + 1)>>

\* id >> FAN_FACTOR and id & FAN_MASK; FAN_MASK is FAN_FACTOR one-bits, so
\* the mask keeps the remainder modulo FAN_MASK + 1
split_fanout(id) == <<id \div (2 ^ FAN_FACTOR), id % (FAN_MASK + 1)>>

\* variant: the block is not zeroed and its slots hold a stale pointer
Node2NewUnzeroed ==
    [i \in 0 .. FAN_OUT - 1 |-> IF Len(pages) > 0 THEN 1 ELSE Null]

\* a zero-initialised Node2: every slot null
Node2New == [i \in 0 .. FAN_OUT - 1 |-> Null]

\* Atomic::compare_and_set on a slot holding cur
compare_and_set(cur, expected, new) ==
    IF cur = expected
    THEN [ok |-> TRUE, slot |-> new, current |-> new]
    ELSE [ok |-> FALSE, slot |-> cur, current |-> cur]

\* the page transformations a caller may pass to rcu, with their result
Apply(f, p) ==
    IF f = "bump"
    THEN [page |-> [val |-> p.val * 2 + 1, ver |-> p.ver + 1],
          ret |-> p.val * 2 + 1]
    ELSE [page |-> p, ret |-> p.val]

NoPage == [val |-> 0, ver |-> 0]
NoView == [read |-> Null, node |-> Null, idx |-> 0, at |-> 0]
NoArg == [op |-> "none", pid |-> 0, item |-> NoPage, f |-> "none"]
NoLoc == [l2_ptr |-> Null, next_child |-> Null, tip |-> Null,
          old_pointer |-> Null, clone |-> NoPage, b |-> 0, failAt |-> 0]
\* at, read and vat are history: the number of writes made for the
\* identifier when the call took effect, and the page and write count its
\* view had observed
NoRes == [kind |-> "none", ptr |-> Null, val |-> 0, at |-> 0,
          read |-> Null, vat |-> 0]

\* the table has not been dropped
NoTeardown == [done |-> FALSE, head |-> 0, nodes |-> <<>>, pages |-> <<>>]

\* content of the slot idx of the Node2 at address node
Slot(node, idx) == n2children[node][idx]

Init ==
    /\ n1children = [i \in 0 .. FAN_OUT - 1 |-> Null]
    /\ n2children = <<>>
    /\ n2freed = {}
    /\ pages = <<>>
    /\ retired = {}
    /\ pc = [t \in Threads |-> "idle"]
    /\ arg = [t \in Threads |-> NoArg]
    /\ loc = [t \in Threads |-> NoLoc]
    /\ view = [t \in Threads |-> NoView]
    /\ res = [t \in Threads |-> NoRes]
    /\ calls = 0
    /\ log = [id \in Ids \cup TeardownIds |-> <<>>]
    /\ displaced = {}
    /\ teardown = NoTeardown
    /\ cfreed = {}


(* ------------------------------------------------------------ traverse *)
\* variant: a plain store instead of the compare_and_set
TraverseStore(cur, next_child) ==
    [ok |-> TRUE, slot |-> next_child, current |-> next_child]

\* the first-level compare_and_set of traverse: install next_child if the
\* slot is still null
TraverseInstall(cur, next_child) == compare_and_set(cur, Null, next_child)

\* variant: a losing thread carries on with its own, unlinked child
TraverseKeepOwn(ret, next_child) == next_child

\* the node traverse continues on after its compare_and_set
TraverseAdopt(ret, next_child) == IF ret.ok THEN next_child ELSE ret.current

\* variant: traverse goes back to its compare_and_set instead of returning
AfterTraverseRetry(op) == "trav_cas"

\* where a thread goes once traverse has handed back the tip
AfterTraverse(op) == IF op = "insert" THEN "ins_swap" ELSE "get_load"

\* A call of insert or get with arguments a, up to the load of l1[l1k]:
\* split_fanout with its range assertion, the load of head, the
\* bounds-checked index into its children, the load of the slot and, when
\* that is null, the allocation of the speculative child.
Enter(t, a) ==
    /\ pc[t] = "idle"
    /\ ~teardown.done
    /\ calls < MaxCalls
    \* threads are interchangeable: they are numbered by their first call
    /\ \A u \in Threads : u < t => arg[u].op # "none"
    /\ calls' = calls + 1
    /\ arg' = [arg EXCEPT ![t] = a]
    /\ LET l1k == split_fanout(a.pid)[1] IN
       IF ~RangeOk(a.pid)
       THEN /\ pc' = [pc EXCEPT ![t] = "panicked"]
            /\ res' = [res EXCEPT ![t] = [NoRes EXCEPT !.kind = "panic_range"]]
            /\ loc' = [loc EXCEPT ![t] = NoLoc]
            /\ n2children' = n2children
       ELSE IF l1k \notin DOMAIN n1children
       THEN /\ pc' = [pc EXCEPT ![t] = "panicked"]
            /\ res' = [res EXCEPT ![t] = [NoRes EXCEPT !.kind = "panic_index"]]
            /\ loc' = [loc EXCEPT ![t] = NoLoc]
            /\ n2children' = n2children
       ELSE IF n1children[l1k] = Null
       THEN /\ pc' = [pc EXCEPT ![t] = "trav_cas"]
            /\ res' = [res EXCEPT ![t] = NoRes]
            /\ n2children' = Append(n2children, Node2New)
            /\ loc' = [loc EXCEPT ![t] =
                          [NoLoc EXCEPT !.next_child = Len(n2children) + 1]]
       ELSE /\ pc' = [pc EXCEPT ![t] = AfterTraverse(a.op)]
            /\ res' = [res EXCEPT ![t] = NoRes]
            /\ n2children' = n2children
            /\ loc' = [loc EXCEPT ![t] =
                          [NoLoc EXCEPT !.l2_ptr = n1children[l1k],
                                        !.tip = n1children[l1k]]]
    /\ UNCHANGED <<n1children, n2freed, pages, retired, view, log,
                   displaced, teardown, cfreed>>

\* the page an insert brings: payloads are opaque to the table, so every
\* insert brings a page of version 0 whose value names the call
NextItem == [val |-> calls + 1, ver |-> 0]

CallInsert(t) ==
    \E id \in Ids :
        Enter(t, [op |-> "insert", pid |-> id, item |-> NextItem,
                  f |-> "none"])

CallGet(t) ==
    \E id \in Ids :
        Enter(t, [op |-> "get", pid |-> id, item |-> NoPage, f |-> "none"])

\* the single compare_and_set on l1[l1k]; a losing child is dropped
TravCas(t) ==
    /\ pc[t] = "trav_cas"
    /\ LET l1k == split_fanout(arg[t].pid)[1]
           ret == TraverseInstall(n1children[l1k], loc[t].next_child)
           l2 == TraverseAdopt(ret, loc[t].next_child)
       IN /\ n1children' = [n1children EXCEPT ![l1k] = ret.slot]
          /\ n2freed' = IF ret.ok THEN n2freed
                        ELSE n2freed \cup {loc[t].next_child}
          /\ loc' = [loc EXCEPT ![t].l2_ptr = l2, ![t].tip = l2]
    /\ pc' = [pc EXCEPT ![t] = AfterTraverse(arg[t].op)]
    /\ UNCHANGED <<n2children, pages, retired, arg, view, res, calls, log,
                   displaced, teardown, cfreed>>

(* -------------------------------------------------------- insert / get *)
\* variant: a plain store, which hands back no previous value to assert on
InsertSwapBlind(old, new) == [slot |-> new, old |-> Null]

\* variant: a swap that finds the slot occupied leaves it empty
InsertSwapTake(old, new) ==
    [slot |-> IF old = Null THEN new ELSE Null, old |-> old]

\* tip.swap(Owned::new(item)): the slot takes the new page whatever it held
InsertSwap(old, new) == [slot |-> new, old |-> old]

\* swap of the new page into the tip, then the assertion on the old value
InsSwap(t) ==
    /\ pc[t] = "ins_swap"
    /\ LET node == loc[t].tip
           idx == split_fanout(arg[t].pid)[2]
           new == Len(pages) + 1
           sw == InsertSwap(Slot(node, idx), new)
       IN /\ pages' = Append(pages, arg[t].item)
          /\ n2children' = [n2children EXCEPT ![node][idx] = sw.slot]
          /\ log' = [log EXCEPT ![arg[t].pid] =
                        Append(@, [by |-> t, ptr |-> new, f |-> "insert",
                                   page |-> arg[t].item])]
          /\ IF sw.old = Null
             THEN /\ pc' = [pc EXCEPT ![t] = "idle"]
                  /\ res' = [res EXCEPT ![t] = [NoRes EXCEPT !.kind = "unit",
                                                            !.ptr = new]]
             ELSE /\ pc' = [pc EXCEPT ![t] = "panicked"]
                  /\ res' = [res EXCEPT ![t] =
                                [NoRes EXCEPT !.kind = "panic_dup",
                                              !.ptr = sw.old]]
    /\ loc' = [loc EXCEPT ![t] = NoLoc]
    /\ UNCHANGED <<n1children, n2freed, retired, arg, view, calls,
                   displaced, teardown, cfreed>>

\* what get hands back for the pointer it loaded from the tip
GetResult(ptr) == IF ptr = Null THEN "nothing" ELSE "view"

\* variant: the transformation is applied to a fresh page, not the clone
RcuTransformFresh(f, read) == Apply(f, NoPage)

\* clone the page the view reads and transform the clone
RcuTransform(f, read) == Apply(f, pages[read])

\* Load of the tip by get; a non-null pointer becomes a PageView.  The
\* caller either keeps the view as the result of its call or goes on to rcu
\* with a transformation f on it: the first pass of the loop clones and
\* transforms before its compare_and_set.
GetLoad(t) ==
    /\ pc[t] = "get_load"
    /\ LET node == loc[t].tip
           idx == split_fanout(arg[t].pid)[2]
           ptr == Slot(node, idx)
           v == [read |-> ptr, node |-> node, idx |-> idx,
                 at |-> Len(log[arg[t].pid])]
       IN \/ /\ res' = [res EXCEPT ![t] =
                           [NoRes EXCEPT !.kind = GetResult(ptr),
                                         !.ptr = ptr,
                                         !.at = Len(log[arg[t].pid])]]
             /\ pc' = [pc EXCEPT ![t] = "idle"]
             /\ loc' = [loc EXCEPT ![t] = NoLoc]
             /\ UNCHANGED <<view, arg>>
          \/ /\ GetResult(ptr) = "view"
             /\ view' = [view EXCEPT ![t] = v]
             /\ \E f \in Fs :
                   /\ arg' = [arg EXCEPT ![t].op = "rcu", ![t].f = f]
                   /\ LET r == RcuTransform(f, ptr)
                      IN loc' = [loc EXCEPT ![t] =
                                   [NoLoc EXCEPT !.old_pointer = ptr,
                                                 !.clone = r.page,
                                                 !.b = r.ret]]
             /\ res' = res
             /\ pc' = [pc EXCEPT ![t] = "rcu_cas"]
    /\ UNCHANGED <<n1children, n2children, n2freed, pages, retired, calls,
                   log, displaced, teardown, cfreed>>

(* ------------------------------------------------------- PageView::rcu *)
\* variant: a plain store instead of the compare_and_set
RcuStore(cur, read, old_pointer, new) ==
    [ok |-> TRUE, slot |-> new, current |-> new]

\* the compare_and_set of rcu: its expected value is the view's read
RcuSwap(cur, read, old_pointer, new) == compare_and_set(cur, read, new)

\* variant: there is no retry arm, every failure is handed to the caller
SameVersionNever(cur, read) == FALSE

\* the guard of the retry arm: the occupant has the view's version marker
SameVersion(cur, read) == pages[cur].ver = pages[read].ver

\* what a successful rcu hands to the guard for deferred destruction
RcuRetire(old) == {}

\* a later pass of the loop, after continue: clone and transform again
RcuClone(t) ==
    /\ pc[t] = "rcu_clone"
    /\ LET r == RcuTransform(arg[t].f, view[t].read)
       IN loc' = [loc EXCEPT ![t].clone = r.page, ![t].b = r.ret]
    /\ pc' = [pc EXCEPT ![t] = "rcu_cas"]
    /\ UNCHANGED <<n1children, n2children, n2freed, pages, retired, arg,
                   view, res, calls, log, displaced, teardown, cfreed>>

\* the compare_and_set and the three arms of the match; the error of a
\* failed compare_and_set owns the clone, which is dropped with it
RcuCas(t) ==
    /\ pc[t] = "rcu_cas"
    /\ LET node == view[t].node
           idx == view[t].idx
           new == Len(pages) + 1
           cur == Slot(node, idx)
           ret == RcuSwap(cur, view[t].read, loc[t].old_pointer, new)
       IN IF ret.ok
          THEN /\ pages' = Append(pages, loc[t].clone)
               /\ n2children' = [n2children EXCEPT ![node][idx] = ret.slot]
               /\ log' = [log EXCEPT ![arg[t].pid] =
                             Append(@, [by |-> t, ptr |-> new,
                                        f |-> arg[t].f,
                                        page |-> loc[t].clone])]
               /\ displaced' = displaced \cup {cur}
               /\ retired' = retired \cup RcuRetire(cur)
               /\ res' = [res EXCEPT ![t] =
                             [kind |-> "ok", ptr |-> new, val |-> loc[t].b,
                              at |-> Len(log[arg[t].pid]) + 1,
                              read |-> view[t].read, vat |-> view[t].at]]
               /\ pc' = [pc EXCEPT ![t] = "idle"]
               /\ loc' = [loc EXCEPT ![t] = NoLoc]
               /\ view' = [view EXCEPT ![t] = NoView]
               /\ cfreed' = cfreed
          ELSE IF SameVersion(ret.current, view[t].read)
          THEN /\ loc' = [loc EXCEPT ![t].old_pointer = ret.current,
                                     ![t].clone = NoPage, ![t].b = 0,
                                     ![t].failAt = Len(log[arg[t].pid])]
               /\ pc' = [pc EXCEPT ![t] = "rcu_clone"]
               /\ cfreed' = cfreed \cup {t}
               /\ UNCHANGED <<pages, n2children, log, displaced, retired,
                              res, view>>
          ELSE /\ res' = [res EXCEPT ![t] =
                             [kind |-> "err", ptr |-> ret.current,
                              val |-> 0, at |-> Len(log[arg[t].pid]),
                              read |-> view[t].read, vat |-> view[t].at]]
               /\ pc' = [pc EXCEPT ![t] = "idle"]
               /\ loc' = [loc EXCEPT ![t] = NoLoc]
               /\ view' = [view EXCEPT ![t] = NoView]
               /\ cfreed' = cfreed \cup {t}
               /\ UNCHANGED <<pages, n2children, log, displaced, retired>>
    /\ UNCHANGED <<n1children, n2freed, arg, calls, teardown>>

(* ------------------------------------------------------------ teardown *)
RECURSIVE drop_all_from(_, _)
\* the loop of the variant from slot i on
drop_all_from(children, i) ==
    IF i \notin DOMAIN children THEN <<>>
    ELSE IF children[i] = Null THEN drop_all_from(children, i + 1)
    ELSE <<children[i]>> \o drop_all_from(children, i + 1)

\* variant: an empty slot is skipped and the scan goes on to the last slot
drop_iter_all(children) == drop_all_from(children, 0)

RECURSIVE drop_from(_, _)
\* the loop of drop_iter from slot i on: it breaks at the first null child
drop_from(children, i) ==
    IF i \notin DOMAIN children \/ children[i] = Null THEN <<>>
    ELSE <<children[i]>> \o drop_from(children, i + 1)

\* drop_iter over the children of a node: the pointers it drops, in order
drop_iter(children) == drop_from(children, 0)

\* variant: Node2 has no destructor, its pages are not dropped with it
Node2_dropShallow(node) == <<>>

\* Drop for Node2: the pages dropped before the node's own block is freed
Node2_drop(node) == drop_iter(n2children[node])

RECURSIVE Node1_drop(_, _)
\* Drop for Node1, from the k-th dropped child on: each child is dropped
\* through Drop for Node2
Node1_drop(nodes, k) ==
    IF k > Len(nodes) THEN <<>>
    ELSE Node2_drop(nodes[k]) \o Node1_drop(nodes, k + 1)

\* Drop for PageTable.  It takes the table by unique reference, so no call
\* is in progress; no call can follow it.
Drop ==
    /\ ~teardown.done
    /\ \A t \in Threads : pc[t] \in {"idle", "panicked"}
    /\ LET nodes == drop_iter(n1children)
       IN teardown' = [done |-> TRUE, head |-> teardown.head + 1,
                       nodes |-> nodes, pages |-> Node1_drop(nodes, 1)]
    /\ UNCHANGED <<n1children, n2children, n2freed, pages, retired, pc,
                   arg, loc, view, res, calls, log, displaced, cfreed>>

(* ------------------------------------------------------- specification *)
Step(t) ==
    \/ CallInsert(t)
    \/ CallGet(t)
    \/ TravCas(t)
    \/ InsSwap(t)
    \/ GetLoad(t)
    \/ RcuClone(t)
    \/ RcuCas(t)

Next == \E t \in Threads : Step(t)

Spec == Init /\ [][Next]_vars

\* every thread is an operating-system thread that keeps being scheduled
FairSpec == Spec /\ \A t \in Threads : WF_vars(Step(t))

\* an insert of an identifier of the dense workload
InsertDense(t) ==
    \E id \in TeardownIds :
        Enter(t, [op |-> "insert", pid |-> id, item |-> NextItem,
                  f |-> "none"])

NextTeardown ==
    \/ \E t \in Threads : InsertDense(t) \/ TravCas(t) \/ InsSwap(t)
    \/ Drop

\* the life of a table that is filled by inserts and then dropped
TeardownSpec == Init /\ [][NextTeardown]_vars

(* ------------------------------------------------------------- helpers *)
L1K(id) == split_fanout(id)[1]
L2K(id) == split_fanout(id)[2]
ValidIds == {id \in Ids : id < Limit}

\* the page pointer the table holds for a representable identifier
Lookup(id) ==
    IF n1children[L1K(id)] = Null THEN Null
    ELSE n2children[n1children[L1K(id)]][L2K(id)]

\* thread t has returned from a plain get
GetDone(t) ==
    /\ pc[t] = "idle"
    /\ arg[t].op = "get"
    /\ res[t].kind \in {"nothing", "view"}

\* thread t has returned from rcu
RcuDone(t) ==
    /\ pc[t] = "idle"
    /\ arg[t].op = "rcu"
    /\ res[t].kind \in {"ok", "err"}

\* thread t takes a step
Acts(t) == pc'[t] # pc[t]

\* every write made for id is an insert
OnlyInserts(id) == \A k \in DOMAIN log[id] : log[id][k].f = "insert"

(* ------------------------------------------------------------------ C1 *)
\* C1: a get(id) that loads the slot after insert(id, p) has swapped its
\* page in (and so any get called after that insert returned), with no
\* other write made for id before the load, returns a view that reads p.
C1_InsertThenGet ==
    \A t \in Threads :
        (GetDone(t) /\ res[t].at = 1 /\ log[arg[t].pid][1].f = "insert")
        => /\ res[t].kind = "view"
           /\ res[t].ptr = log[arg[t].pid][1].ptr
           /\ pages[res[t].ptr] = log[arg[t].pid][1].page

\* the get followed the insert while another identifier of the same
\* second-level node was inserted too
C1_Witness ==
    \E t \in Threads :
        /\ GetDone(t) /\ res[t].at = 1
        /\ res[t].kind = "view"
        /\ \E id \in ValidIds :
              /\ id # arg[t].pid
              /\ L1K(id) = L1K(arg[t].pid)
              /\ log[id] # <<>>

(* ------------------------------------------------------------------ C2 *)
\* C2: an insert on an identifier that already holds a page never replaces
\* that page: as long as no update was made, the slot holds the page of
\* the first insert.
C2_NoSilentOverwrite ==
    \A id \in ValidIds :
        (log[id] # <<>> /\ OnlyInserts(id)) => Lookup(id) = log[id][1].ptr

(* ------------------------------------------------------------------ C3 *)
\* thread t takes a step of a plain get (its call included)
GetActs(t) ==
    /\ Acts(t)
    /\ \/ pc[t] = "idle" /\ arg'[t].op = "get"
       \/ pc[t] # "idle" /\ arg[t].op = "get"

\* C3 as stated: no step of a get allocates a node or changes a first-level
\* or second-level slot.
C3_GetIsPureRead ==
    [][\A t \in Threads :
          GetActs(t) => /\ n1children' = n1children
                        /\ n2children' = n2children]_vars

\* C3 amended: no step of a get changes a slot of an existing second-level
\* node or a first-level slot that holds a node; when a get returns, the
\* first-level slot of its identifier holds a node.
C3_GetWritesOnlyEmptyFirstLevel ==
    [][\A t \in Threads :
          GetActs(t) =>
             /\ \A a \in DOMAIN n2children : n2children'[a] = n2children[a]
             /\ \A i \in DOMAIN n1children :
                   n1children[i] # Null => n1children'[i] = n1children[i]
             /\ (pc'[t] = "idle" /\ arg'[t].op = "get") =>
                   n1children'[L1K(arg'[t].pid)] # Null]_vars

\* a get returned nothing and left a node behind although no insert was
\* ever called
C3_Witness ==
    \E t \in Threads :
        /\ GetDone(t) /\ res[t].kind = "nothing"
        /\ n1children[L1K(arg[t].pid)] # Null
        /\ \A u \in Threads : arg[u].op \in {"get", "none"}
        /\ \A id \in Ids : log[id] = <<>>

(* ------------------------------------------------------------------ C4 *)
\* thread t is in the retry arm of rcu: its compare_and_set failed against
\* an occupant with the version marker of the page its view observed
Retrying(t) == pc[t] = "rcu_clone"

\* C4: an rcu whose compare_and_set failed against a same-version occupant
\* returns, unless the slot is written again after that failure.
C4_RelocationRetryTerminates ==
    \A t \in Threads :
        Retrying(t) ~> (pc[t] = "idle"
                        \/ Len(log[arg[t].pid]) > loc[t].failAt)

(* ------------------------------------------------------------------ C5 *)
\* C5: a call with an identifier below 2^(2*FAN_FACTOR) passes validation,
\* and a call with any other identifier ends in the range assertion of
\* split_fanout.
C5_RangeBoundary ==
    \A t \in Threads :
        arg[t].op # "none" =>
            IF arg[t].pid < Limit
            THEN res[t].kind \notin {"panic_range", "panic_index"}
            ELSE pc[t] = "panicked" /\ res[t].kind = "panic_range"

(* ------------------------------------------------------------------ C6 *)
\* the writes made for id after the first n, up to the m-th
WritersBetween(id, n, m) ==
    {log[id][k].by : k \in {j \in DOMAIN log[id] : n < j /\ j <= m}}

Max(a, b) == IF a >= b THEN a ELSE b

\* threads t and u have both returned from an rcu with a version-changing
\* transformation on views of the same page, and nobody else wrote the slot
\* from the time of their views until both had returned
Contended(t, u) ==
    /\ t # u
    /\ RcuDone(t) /\ RcuDone(u)
    /\ res[t].read = res[u].read
    /\ arg[t].f = "bump" /\ arg[u].f = "bump"
    /\ WritersBetween(arg[t].pid, res[t].vat, Max(res[t].at, res[u].at))
          \subseteq {t, u}

\* C6: of two such updates exactly one succeeds; the other returns a
\* conflict carrying the winner's page, which the slot held when it
\* returned, and has written nothing.
C6_ConflictSurfacing ==
    \A t, u \in Threads :
        Contended(t, u) =>
            /\ (res[t].kind = "ok") # (res[u].kind = "ok")
            /\ (res[t].kind = "ok" /\ res[u].kind = "err") =>
                  /\ res[u].ptr = res[t].ptr
                  /\ log[arg[u].pid][res[u].at].ptr = res[t].ptr
                  /\ u \notin WritersBetween(arg[u].pid, res[u].vat,
                                             Len(log[arg[u].pid]))

C6_Witness ==
    \E t, u \in Threads :
        Contended(t, u) /\ res[t].kind = "ok" /\ res[u].kind = "err"

(* ------------------------------------------------------------------ C7 *)
\* C7: every page displaced by a successful rcu has been handed to the
\* guard for deferred destruction.
C7_DisplacedIsRetired == displaced \subseteq retired

(* ------------------------------------------------------------------ C8 *)
\* C8: when the compare_and_set of an rcu succeeds, the page it installs is
\* the transformation of the page the slot held just before, and the value
\* returned is the result of that application.
C8_NoLostUpdate ==
    [][\A t \in Threads :
          (pc[t] = "rcu_cas" /\ pc'[t] = "idle" /\ res'[t].kind = "ok") =>
             LET before == n2children[view[t].node][view[t].idx]
                 after == n2children'[view[t].node][view[t].idx]
                 r == Apply(arg[t].f, pages[before])
             IN /\ after = res'[t].ptr
                /\ after # before
                /\ pages'[after] = r.page
                /\ res'[t].val = r.ret]_vars

\* two threads have updated the same identifier one after the other
C8_Witness ==
    \E id \in ValidIds :
        /\ Len(log[id]) = 3
        /\ log[id][2].f = "bump" /\ log[id][3].f = "bump"
        /\ log[id][2].by # log[id][3].by

(* ------------------------------------------------------------------ C9 *)
\* C9: while no insert has written an identifier, a get of it returns
\* nothing, no thread holds a view of it and the table holds no page for it.
C9_AbsenceBeforeInsert ==
    /\ \A t \in Threads :
          (arg[t].op \in {"get", "rcu"} /\ arg[t].pid \in ValidIds /\
           log[arg[t].pid] = <<>>)
          => /\ arg[t].op = "get"
             /\ GetDone(t) => res[t].kind = "nothing"
    /\ \A id \in ValidIds : log[id] = <<>> => Lookup(id) = Null

\* a get of a never-inserted identifier returned while another identifier
\* of the same second-level node held a page
C9_Witness ==
    \E t \in Threads :
        /\ GetDone(t) /\ arg[t].pid \in ValidIds
        /\ log[arg[t].pid] = <<>>
        /\ res[t].kind = "nothing"
        /\ \E id \in ValidIds :
              /\ id # arg[t].pid
              /\ L1K(id) = L1K(arg[t].pid)
              /\ Lookup(id) # Null

(* ----------------------------------------------------------------- C10 *)
\* the page that results from the first k writes made for an identifier:
\* the inserted page with the transformations applied in order
RECURSIVE Compose(_, _)
Compose(l, k) ==
    IF k = 1 THEN l[1].page ELSE Apply(l[k].f, Compose(l, k - 1)).page

\* thread t made all writes for id: an insert, then updates
SoleWriter(id, t) ==
    /\ log[id] # <<>>
    /\ log[id][1].f = "insert"
    /\ \A k \in DOMAIN log[id] :
          log[id][k].by = t /\ (k > 1 => log[id][k].f # "insert")

\* C10: while one thread alone writes an identifier, none of its updates
\* fails or retries, each returns the result of its transformation on the
\* page of the previous write, the slot holds the composition of all
\* transformations on the inserted page, and a get reads that page.
C10_ReadYourWrites ==
    \A id \in ValidIds : \A t \in Threads :
        SoleWriter(id, t) =>
            /\ (arg[t].op = "rcu" /\ arg[t].pid = id) =>
                  /\ pc[t] # "rcu_clone"
                  /\ RcuDone(t) =>
                        /\ res[t].kind = "ok"
                        /\ res[t].val =
                              Apply(arg[t].f,
                                    Compose(log[id], Len(log[id]) - 1)).ret
            /\ pages[Lookup(id)] = Compose(log[id], Len(log[id]))
            /\ \A u \in Threads :
                  (GetDone(u) /\ arg[u].pid = id /\
                   res[u].at = Len(log[id]))
                  => /\ res[u].kind = "view"
                     /\ pages[res[u].ptr] = Compose(log[id], Len(log[id]))

\* the inserting thread has updated the identifier twice
C10_Witness ==
    \E id \in ValidIds : \E t \in Threads :
        /\ SoleWriter(id, t)
        /\ Len(log[id]) = 3
        /\ log[id][2].f = "bump" /\ log[id][3].f = "bump"
        /\ RcuDone(t) /\ arg[t].pid = id /\ res[t].kind = "ok"

\* a get has read the page of an update made through the view of an
\* earlier get
C10_WitnessGet ==
    \E id \in ValidIds : \E t \in Threads :
        /\ SoleWriter(id, t)
        /\ Len(log[id]) = 2 /\ log[id][2].f = "bump"
        /\ GetDone(t) /\ arg[t].pid = id /\ res[t].at = 2

(* ----------------------------------------------------------------- C11 *)
\* C11: a step of an insert, get or update made for an identifier leaves
\* the page every other representable identifier resolves to unchanged,
\* and two first-level slots never hold the same second-level node.
C11_BranchIsolation ==
    [][/\ \A t \in Threads :
             Acts(t) => \A b \in ValidIds \ {arg'[t].pid} :
                           Lookup(b)' = Lookup(b)
       /\ \A i, j \in DOMAIN n1children :
             (i # j /\ n1children'[i] # Null)
             => n1children'[i] # n1children'[j]]_vars

\* the largest identifier was inserted alone; a get of the identifier with
\* the same second-level index in the first branch found nothing there,
\* in a node of its own
C11_Witness ==
    \E t, u \in Threads :
        /\ arg[t].op = "insert" /\ arg[t].pid = Limit - 1
        /\ res[t].kind = "unit"
        /\ Lookup(Limit - 1) = res[t].ptr
        /\ \A id \in ValidIds : id # Limit - 1 => log[id] = <<>>
        /\ GetDone(u) /\ arg[u].pid = L2K(Limit - 1)
        /\ res[u].kind = "nothing"
        /\ n1children[0] # Null
        /\ n1children[0] # n1children[L1K(Limit - 1)]

(* ----------------------------------------------------------------- C12 *)
\* the elements of a sequence
Range(s) == {s[k] : k \in DOMAIN s}

\* no element occurs twice in the sequence
NoDup(s) == \A j, k \in DOMAIN s : j # k => s[j] # s[k]

\* the calls made were n inserts, of the identifiers 0 .. n-1, once each,
\* and all of them returned
DenseRun(n) ==
    /\ calls = n
    /\ \A t \in Threads : pc[t] = "idle"
    /\ \A id \in DOMAIN log : Len(log[id]) = IF id < n THEN 1 ELSE 0
    /\ \A id \in DOMAIN log : OnlyInserts(id)

\* C12: when the table is dropped after the identifiers 0 .. n-1 were
\* inserted and nothing else was done, the first-level node is freed once,
\* every page is freed exactly once, and every second-level node is freed
\* exactly once, by the drop or as the loser of a creation race.
C12_TeardownDense ==
    \A n \in 0 .. MaxCalls :
        (teardown.done /\ DenseRun(n))
        => /\ teardown.head = 1
           /\ Len(pages) = n
           /\ NoDup(teardown.pages)
           /\ Range(teardown.pages) = DOMAIN pages
           /\ NoDup(teardown.nodes)
           /\ Range(teardown.nodes) \cap n2freed = {}
           /\ Range(teardown.nodes) \cup n2freed = DOMAIN n2children

\* the dropped table held a full second-level node and the first page of
\* the next node, and a creation race had been lost while it was filled
C12_Witness ==
    /\ teardown.done
    /\ DenseRun(FAN_OUT + 1)
    /\ Len(teardown.nodes) = 2
    /\ Len(teardown.pages) = FAN_OUT + 1
    /\ n2freed # {}

(* ----------------------------------------------------------------- C13 *)
\* no dropped second-level node is in a first-level slot or is the node a
\* thread traverses, writes to or holds a view into
FreedNodesUnreferenced ==
    \A a \in n2freed :
        /\ \A i \in DOMAIN n1children : n1children[i] # a
        /\ \A t \in Threads :
              /\ loc[t].l2_ptr # a /\ loc[t].tip # a
              /\ view[t].node # a

\* the pages a slot, a view, a pending rcu or a returned view refers to
PagesInUse ==
    {n2children[a][i] : a \in DOMAIN n2children, i \in 0 .. FAN_OUT - 1}
    \cup {view[t].read : t \in Threads}
    \cup {loc[t].old_pointer : t \in Threads}
    \cup {res[t].ptr : t \in Threads}

\* C13 as stated: nothing a slot or a thread refers to has been freed, and
\* the only objects freed while the table is in use are second-level nodes
\* that lost their creation race.
C13_OnlyLosingNodesFreed ==
    /\ FreedNodesUnreferenced
    /\ PagesInUse \cap Range(teardown.pages) = {}
    /\ cfreed = {}

\* C13 amended: nothing a slot or a thread refers to has been freed; the
\* objects freed while the table is in use are second-level nodes that lost
\* their creation race and the clones of failed rcu attempts, and the step
\* that drops a clone publishes no page and changes no slot.
C13_NoUseAfterFree ==
    [][/\ FreedNodesUnreferenced'
       /\ (PagesInUse \cap Range(teardown.pages))' = {}
       /\ cfreed' # cfreed => /\ pages' = pages
                              /\ n2children' = n2children
                              /\ n1children' = n1children]_vars

\* a creation race was lost and its loser dropped while the winner's node
\* is in use, and an update has dropped its clone after a conflict
C13_Witness ==
    /\ n2freed # {}
    /\ cfreed # {}
    /\ \E t \in Threads : RcuDone(t) /\ res[t].kind = "err"

(* ----------------------------------------------------------------- C14 *)
\* the number of steps thread t has left in its insert or get call
StepsLeft(t) ==
    IF pc[t] = "trav_cas" THEN 2
    ELSE IF pc[t] \in {"ins_swap", "get_load"} THEN 1
    ELSE 0

\* C14: a thread inside an insert or get call can always take its next
\* step, whatever the other threads do, a call takes at most three steps
\* of its thread, and the first-level compare_and_set is attempted at most
\* once: a thread that finds the slot taken goes on with the node in it.
C14_BoundedProgress ==
    [][\A t \in Threads :
          /\ StepsLeft(t) > 0 =>
                ENABLED (TravCas(t) \/ InsSwap(t) \/ GetLoad(t))
          /\ (pc'[t] # pc[t] \/ loc'[t] # loc[t]) =>
                /\ pc[t] = "idle" => StepsLeft(t)' <= 2
                /\ StepsLeft(t) > 0 => StepsLeft(t)' < StepsLeft(t)
                /\ pc[t] = "trav_cas" =>
                      LET l1k == L1K(arg[t].pid)
                      IN /\ pc'[t] # "trav_cas"
                         /\ loc'[t].tip = n1children'[l1k]
                         /\ n1children[l1k] # Null =>
                               n1children' = n1children]_vars

\* a thread has lost the creation race and stands before its swap on the
\* winner's node
C14_Witness ==
    \E t \in Threads :
        /\ pc[t] = "ins_swap"
        /\ loc[t].next_child \in n2freed
        /\ loc[t].tip = n1children[L1K(arg[t].pid)]
        /\ loc[t].tip # loc[t].next_child

(* ----------------------------------------------------------------- C15 *)
\* the second-level node at address a is in a first-level slot
Linked(a) == \E i \in DOMAIN n1children : n1children[i] = a

\* a thread holds the node at address a as the child it is about to offer
Pending(a) ==
    \E t \in Threads : pc[t] = "trav_cas" /\ loc[t].next_child = a

\* every allocated node is in exactly one first-level slot, or was dropped
\* as a loser, or is still to be offered; every thread past traverse works
\* on the node that is in the first-level slot of its identifier
OneNodePerSlot ==
    /\ \A a \in DOMAIN n2children :
          /\ Linked(a) \/ a \in n2freed \/ Pending(a)
          /\ ~(Linked(a) /\ a \in n2freed)
          /\ ~(Linked(a) /\ Pending(a))
          /\ ~(Pending(a) /\ a \in n2freed)
          /\ Cardinality({i \in DOMAIN n1children : n1children[i] = a}) <= 1
    /\ \A t \in Threads :
          /\ pc[t] \in {"ins_swap", "get_load"} =>
                /\ loc[t].tip # Null
                /\ loc[t].tip = n1children[L1K(arg[t].pid)]
          /\ pc[t] \in {"rcu_cas", "rcu_clone"} =>
                /\ view[t].node # Null
                /\ view[t].node = n1children[L1K(arg[t].pid)]

\* C15: however many threads race to create the node of an empty
\* first-level slot, one node is installed and the slot never changes
\* afterwards, every thread goes on with the installed node, and a node
\* that lost the race is dropped without being in any slot, before or
\* after.
C15_SingleWinner ==
    [][/\ \A i \in DOMAIN n1children :
             n1children[i] # Null => n1children'[i] = n1children[i]
       /\ OneNodePerSlot'
       /\ \A a \in n2freed' : ~Linked(a)]_vars

\* two threads raced for the same first-level slot: one lost, its node was
\* dropped, and both stand on the winner's node
C15_Witness ==
    \E t, u \in Threads :
        /\ t # u
        /\ pc[t] \in {"ins_swap", "get_load"}
        /\ pc[u] \in {"ins_swap", "get_load"}
        /\ L1K(arg[t].pid) = L1K(arg[u].pid)
        /\ loc[t].tip = loc[u].tip
        /\ loc[t].tip = loc[t].next_child
        /\ loc[u].next_child \in n2freed
        /\ ~Linked(loc[u].next_child)

(* ----------------------------------------------------------------- C16 *)
\* the second-level slots, as pairs of node address and index
Slots2 == (DOMAIN n2children) \X (0 .. FAN_OUT - 1)

\* C16: no step of insert, get or update empties a first-level or a
\* second-level slot, and a step that changes a second-level slot changes
\* that slot alone, to a page published by that very step.
C16_SlotsGrowOnly ==
    [][/\ \A i \in DOMAIN n1children :
             n1children[i] # Null => n1children'[i] # Null
       /\ \A s \in Slots2 :
             /\ Slot(s[1], s[2]) # Null => n2children'[s[1]][s[2]] # Null
             /\ n2children'[s[1]][s[2]] # Slot(s[1], s[2]) =>
                   /\ n2children'[s[1]][s[2]] = Len(pages')
                   /\ Len(pages') = Len(pages) + 1
                   /\ \A r \in Slots2 :
                         r # s =>
                            n2children'[r[1]][r[2]] = Slot(r[1], r[2])]_vars

\* the page of an identifier was replaced, by an update and by a second
\* insert, and the slot still holds a page
C16_Witness ==
    \E id \in ValidIds :
        /\ Len(log[id]) = 3
        /\ log[id][2].f # "insert" /\ log[id][3].f = "insert"
        /\ Lookup(id) = log[id][3].ptr

(* ----------------------------------------------------------------- C17 *)
\* C17: for every identifier a call was made with that passes the range
\* assertion, split_fanout returns the quotient and the remainder of the
\* identifier by FAN_OUT and both are indices of a node's slots, that is,
\* less than FAN_OUT.
C17_SplitInRange ==
    \A t \in Threads :
        (arg[t].op # "none" /\ RangeOk(arg[t].pid))
        => /\ split_fanout(arg[t].pid)
                 = <<arg[t].pid \div FAN_OUT, arg[t].pid % FAN_OUT>>
           /\ split_fanout(arg[t].pid)[1] < FAN_OUT
           /\ split_fanout(arg[t].pid)[2] < FAN_OUT

(* ----------------------------------------------------------------- C18 *)
\* slot i of the node lies before the node's first empty slot
InPrefix(children, i) == \A j \in 0 .. i : children[j] # Null

\* C18: the drop of the table frees the second-level nodes of the
\* first-level slots before the first empty one, in index order, and of
\* each of these nodes the pages of the slots before its first empty one,
\* each once and nothing else; a node or page stored after an empty slot is
\* not freed.
C18_TeardownPrefix ==
    teardown.done =>
       /\ NoDup(teardown.nodes) /\ NoDup(teardown.pages)
       /\ \A k \in DOMAIN teardown.nodes :
             teardown.nodes[k] = n1children[k - 1]
       /\ Range(teardown.nodes) =
             {n1children[i] : i \in {j \in DOMAIN n1children :
                                        InPrefix(n1children, j)}}
       /\ Range(teardown.pages) =
             UNION {{n2children[a][i] :
                        i \in {j \in 0 .. FAN_OUT - 1 :
                                  InPrefix(n2children[a], j)}} :
                    a \in Range(teardown.nodes)}
       /\ \A i \in DOMAIN n1children :
             (n1children[i] # Null /\ ~InPrefix(n1children, i)) =>
                /\ n1children[i] \notin Range(teardown.nodes)
                /\ \A j \in 0 .. FAN_OUT - 1 :
                      n2children[n1children[i]][j]
                         \notin Range(teardown.pages)
       /\ \A a \in Range(teardown.nodes) : \A j \in 0 .. FAN_OUT - 1 :
             (n2children[a][j] # Null /\ ~InPrefix(n2children[a], j)) =>
                n2children[a][j] \notin Range(teardown.pages)

\* the dropped table held a page in the second slot of a node whose first
\* slot was empty: the node was freed, the page was not
C18_Witness ==
    /\ teardown.done
    /\ Lookup(0) = Null /\ Lookup(1) # Null
    /\ n1children[0] \in Range(teardown.nodes)
    /\ Lookup(1) \notin Range(teardown.pages)

\* the dropped table held a node with a page in the second first-level
\* slot while the first was empty: neither was freed
C18_WitnessNode ==
    /\ teardown.done
    /\ n1children[0] = Null /\ Lookup(FAN_OUT) # Null
    /\ teardown.nodes = <<>> /\ teardown.pages = <<>>
    /\ teardown.head = 1

(* ----------------------------------------------------------------- C19 *)
\* C19: when a step of rcu returns a conflict, the page it returns is the
\* one the slot holds at that step, its version marker differs from that
\* of the page the view read, the step changes no slot and publishes no
\* page, and the call has made none of the writes since its view was taken.
C19_TrueConflictsOnly ==
    [][\A t \in Threads :
          (pc[t] = "rcu_cas" /\ pc'[t] = "idle" /\ res'[t].kind = "err")
          => /\ res'[t].ptr = Slot(view[t].node, view[t].idx)
             /\ res'[t].ptr = Lookup(arg[t].pid)
             /\ pages[res'[t].ptr].ver # pages[view[t].read].ver
             /\ n2children' = n2children
             /\ n1children' = n1children
             /\ pages' = pages
             /\ \A k \in view[t].at + 1 .. Len(log[arg[t].pid]) :
                   log'[arg[t].pid][k].by # t]_vars

\* an update that would have left the page logically unchanged returned a
\* conflict: the slot holds a page of a newer version
C19_Witness ==
    \E t \in Threads :
        /\ RcuDone(t) /\ res[t].kind = "err"
        /\ arg[t].f = "move"
        /\ Lookup(arg[t].pid) = res[t].ptr
        /\ pages[res[t].ptr].ver > pages[res[t].read].ver

(* ----------------------------------------------------------------- C20 *)
\* the threads whose last call is a finished insert of id
Inserted(id) ==
    {t \in Threads : /\ arg[t].op = "insert" /\ arg[t].pid = id
                     /\ res[t].kind \in {"unit", "panic_dup"}}

\* those of them whose insert returned normally
InsertedOk(id) == {t \in Inserted(id) : res[t].kind = "unit"}

\* C20: of the inserts made for one identifier at most one has returned
\* normally; when the only writes ever made for the identifier are these
\* inserts, exactly one, the first to swap, has returned normally and every
\* other one has aborted on the duplicate.
C20_OneInsertWins ==
    \A id \in ValidIds :
        /\ Cardinality(InsertedOk(id)) <= 1
        /\ (Inserted(id) # {} /\ Cardinality(Inserted(id)) = Len(log[id]))
           => /\ Cardinality(InsertedOk(id)) = 1
              /\ \A t \in Inserted(id) :
                    IF log[id][1].by = t
                    THEN res[t].kind = "unit" /\ pc[t] = "idle"
                    ELSE res[t].kind = "panic_dup" /\ pc[t] = "panicked"

\* two inserts of a fresh identifier overlapped (both found its first-level
\* slot empty): one returned, the other aborted
C20_Witness ==
    \E id \in ValidIds :
        /\ calls = NumThreads
        /\ Inserted(id) = Threads
        /\ Len(log[id]) = NumThreads
        /\ n2freed # {}
        /\ Cardinality(InsertedOk(id)) = 1

====
